---- MODULE Spec2Model ----
(***************************************************************************)
(* Model of src/traffic_stops.py: the normaliser of the stops file, the    *)
(* value and range filters, the grouped summary statistics, the outcome    *)
(* rates and the officer-level search share.                               *)
(*                                                                         *)
(* A dataframe is a record [kind |-> "df", columns, rows]: columns is the  *)
(* set of column names, rows the sequence of rows, each row a record with  *)
(* one field per column.  Python's None is [kind |-> "None"], a raised     *)
(* exception is [kind |-> "raise"].  A missing value (NaN / None) of a     *)
(* numeric column is NaN, of a text or boolean column NA; the booleans of  *)
(* the nullable search_conducted column are the texts "True" / "False".    *)
(* Rates and means are exact fractions [num, den].                         *)
(***************************************************************************)
EXTENDS Integers, Sequences, FiniteSets

\* csv: the stops file; stops, searches: the caller's two frames; call: the
\* call the caller made last, with its arguments; ret: what it returned;
\* joined: the frame merged_df that compute_search_share built in that call.
VARIABLES csv, stops, searches, call, ret, joined

vars == <<csv, stops, searches, call, ret, joined>>

\* ------------------------------------------------------------------ bounds
MaxAgeRows == 2
MaxRows == 3
MaxStops == 2
MaxSearches == 2

\* ------------------------------------------------------- values and frames
NaN == -1
NA == "NaN"

None == [kind |-> "None"]
Raise == [kind |-> "raise"]
DataFrame(cols, rows) == [kind |-> "df", columns |-> cols, rows |-> rows]

NumericCols == {"driver_age", "stop_id", "stop_year", "stop_month"}
BooleanCols == {"arrest_or_citation"}

\* Series.isnull() at one value of the column.
isnull(col, v) == IF col \in NumericCols THEN v = NaN
                  ELSE IF col \in BooleanCols THEN FALSE ELSE v = NA

\* ------------------------------------------------------ column names, constants
ARREST_CITATION == "arrest_or_citation"
YEAR_COL == "stop_year"
MONTH_COL == "stop_month"
DATE_COL == "stop_date"
STOP_SEASON == "stop_season"
STOP_OUTCOME == "stop_outcome"
SEARCH_TYPE == "search_type"
SEARCH_CONDUCTED == "search_conducted"
AGE_CAT == "age_category"
OFFICER_ID == "officer_id"
STOP_ID == "stop_id"
DRIVER_AGE == "driver_age"
DRIVER_RACE == "driver_race"

SEASONS_MONTHS == <<[key |-> "winter", value |-> {12, 1, 2}],
                    [key |-> "spring", value |-> {3, 4, 5}],
                    [key |-> "summer", value |-> {6, 7, 8}],
                    [key |-> "fall", value |-> {9, 10, 11}]>>

AGE_BINS == <<0, 21, 36, 50, 65, 100>>
AGE_LABELS == <<"juvenile", "young_adult", "adult", "middle_aged", "senior">>

SUCCESS_STOPS == {"Arrest", "Citation"}

SEARCHING_TYPES == {"Probable Cause", "Incident to Arrest"}

\* ------------------------------------------------------------- normaliser
\* pd.cut(x, bins, labels) with its defaults right=True, include_lowest=False:
\* bin i is (bins[i], bins[i+1]]; a value in no bin, or a missing value, is missing.
cut_left_closed(x, bins, labels) ==
    IF x = NaN THEN NA
    ELSE LET hit == {i \in 1..Len(labels) :
                        \/ bins[i] <= x /\ x < bins[i + 1]
                        \/ i = Len(labels) /\ x = bins[i + 1]}
         IN IF hit = {} THEN NA ELSE labels[CHOOSE i \in hit : TRUE]

cut(x, bins, labels) ==
    IF x = NaN THEN NA
    ELSE LET hit == {i \in 1..Len(labels) : bins[i] < x /\ x <= bins[i + 1]}
         IN IF hit = {} THEN NA ELSE labels[CHOOSE i \in hit : TRUE]

\* The loop over SEASONS_MONTHS: np.where(month in value, key, previous).
RECURSIVE season_loop(_, _, _)
season_loop(month, k, acc) ==
    IF k > Len(SEASONS_MONTHS) THEN acc
    ELSE season_loop(month, k + 1,
                     IF month \in SEASONS_MONTHS[k].value
                     THEN SEASONS_MONTHS[k].key ELSE acc)

fillna(col, v, fill) == IF isnull(col, v) THEN fill ELSE v

process_stop(raw) ==
    [stop_id |-> raw.stop_id,
     stop_date |-> raw.stop_date,
     officer_id |-> fillna(OFFICER_ID, raw.officer_id, "UNKNOWN"),
     driver_age |-> raw.driver_age,
     driver_race |-> raw.driver_race,
     stop_outcome |-> raw.stop_outcome,
     stop_year |-> raw.stop_date[1],
     stop_month |-> raw.stop_date[2],
     stop_season |-> season_loop(raw.stop_date[2], 1, "default"),
     age_category |-> cut(raw.driver_age, AGE_BINS, AGE_LABELS),
     arrest_or_citation |-> raw.stop_outcome \in SUCCESS_STOPS]

StopColumns == {STOP_ID, DATE_COL, OFFICER_ID, DRIVER_AGE, DRIVER_RACE,
                STOP_OUTCOME, YEAR_COL, MONTH_COL, STOP_SEASON, AGE_CAT,
                ARREST_CITATION}

read_and_process_allstops(file) ==
    IF ~file.exists THEN None
    ELSE DataFrame(StopColumns,
                   [i \in 1..Len(file.rows) |-> process_stop(file.rows[i])])

\* ---------------------------------------------------------------- filters
\* df[mask]: the rows whose mask is true, in order.
RECURSIVE take(_, _, _)
take(rows, mask, i) ==
    IF i > Len(rows) THEN <<>>
    ELSE (IF mask[i] THEN <<rows[i]>> ELSE <<>>) \o take(rows, mask, i + 1)

select(df, mask) == DataFrame(df.columns, take(df.rows, mask, 1))

isin(col, v, values) == v \in values

\* Series.between(left, right): left <= v <= right, False for a missing value.
between_exclusive(v, left, right) == v # NaN /\ left < v /\ v < right

between(v, left, right) == v # NaN /\ left <= v /\ v <= right

RECURSIVE val_filter_skip_unknown(_, _, _)
val_filter_skip_unknown(df, filter_info, k) ==
    IF k > Len(filter_info) THEN df
    ELSE IF filter_info[k].key \notin df.columns
    THEN val_filter_skip_unknown(df, filter_info, k + 1)
    ELSE LET mask == [n \in 1..Len(df.rows) |->
                        isin(filter_info[k].key, df.rows[n][filter_info[k].key],
                             filter_info[k].value)]
         IN val_filter_skip_unknown(select(df, mask), filter_info, k + 1)

RECURSIVE val_filter_loop(_, _, _)
val_filter_loop(df, filter_info, k) ==
    IF k > Len(filter_info) THEN df
    ELSE IF filter_info[k].key \notin df.columns THEN None
    ELSE LET mask == [n \in 1..Len(df.rows) |->
                        isin(filter_info[k].key, df.rows[n][filter_info[k].key],
                             filter_info[k].value)]
         IN val_filter_loop(select(df, mask), filter_info, k + 1)

RECURSIVE range_filter_loop(_, _, _)
range_filter_loop(df, filter_info, k) ==
    IF k > Len(filter_info) THEN df
    ELSE IF filter_info[k].key \notin df.columns THEN None
    ELSE LET mask == [n \in 1..Len(df.rows) |->
                        between(df.rows[n][filter_info[k].key],
                                filter_info[k].value[1], filter_info[k].value[2])]
         IN range_filter_loop(select(df, mask), filter_info, k + 1)

\* A call is its return value together with the state in which it leaves the
\* frame object the caller passed (the loops rebind the local name only).
apply_val_filters(df, filter_info) ==
    [ret |-> val_filter_loop(df, filter_info, 1), df |-> df]

apply_range_filters(df, filter_info) ==
    [ret |-> range_filter_loop(df, filter_info, 1), df |-> df]

\* --------------------------------------------------------------- group-by
\* The order pandas sorts group keys and unstacked columns in: numbers by value,
\* texts lexicographically, age_category by the position of its label.
TextOrder == <<"A", "B", "False", "O1", "O2", "True", "UNKNOWN">>

Position(seq, v) == CHOOSE i \in 1..Len(seq) : seq[i] = v

SortKey(col, v) == IF col \in NumericCols THEN v
                   ELSE IF col = AGE_CAT THEN Position(AGE_LABELS, v)
                   ELSE Position(TextOrder, v)

\* The group key of a row: its values in the group columns, in their order.
KeyOf(r, cols) == [i \in 1..Len(cols) |-> r[cols[i]]]

\* groupby drops the rows that have a missing value in a group column.
HasKey(r, cols) == \A i \in 1..Len(cols) : ~isnull(cols[i], r[cols[i]])

KeyLess(cols, a, b) ==
    \E i \in 1..Len(cols) :
        /\ SortKey(cols[i], a[i]) < SortKey(cols[i], b[i])
        /\ \A j \in 1..(i - 1) : a[j] = b[j]

RECURSIVE SortedKeys(_, _)
SortedKeys(cols, keys) ==
    IF keys = {} THEN <<>>
    ELSE LET m == CHOOSE a \in keys : \A b \in keys \ {a} : KeyLess(cols, a, b)
         IN <<m>> \o SortedKeys(cols, keys \ {m})

Range(seq) == {seq[i] : i \in DOMAIN seq}

GroupKeys(rows, cols) == {KeyOf(rows[i], cols) : i \in {j \in DOMAIN rows : HasKey(rows[j], cols)}}

\* df.groupby(cols).size() at one key.
GroupSize(rows, cols, key) ==
    Cardinality({i \in DOMAIN rows : HasKey(rows[i], cols) /\ KeyOf(rows[i], cols) = key})

\* ------------------------------------------------------ summary statistics
Undefined == [def |-> FALSE, num |-> 0, den |-> 1]
Frac(n, d) == [def |-> TRUE, num |-> n, den |-> d]

\* The non-missing values of a column, in row order.
RECURSIVE Values(_, _, _)
Values(rows, col, i) ==
    IF i > Len(rows) THEN <<>>
    ELSE (IF isnull(col, rows[i][col]) THEN <<>> ELSE <<rows[i][col]>>)
         \o Values(rows, col, i + 1)

RECURSIVE Sum(_)
Sum(vs) == IF vs = <<>> THEN 0 ELSE Head(vs) + Sum(Tail(vs))

\* Series.mean(): missing values are skipped; no value at all gives NaN.
mean(vs) == IF vs = <<>> THEN Undefined ELSE Frac(Sum(vs), Len(vs))

RECURSIVE Insert(_, _)
Insert(sorted, v) ==
    IF sorted = <<>> THEN <<v>>
    ELSE IF v <= Head(sorted) THEN <<v>> \o sorted
    ELSE <<Head(sorted)>> \o Insert(Tail(sorted), v)

RECURSIVE Sorted(_)
Sorted(vs) == IF vs = <<>> THEN <<>> ELSE Insert(Sorted(Tail(vs)), Head(vs))

median(vs) ==
    IF vs = <<>> THEN Undefined
    ELSE LET s == Sorted(vs)
             n == Len(s)
         IN IF n % 2 = 1 THEN Frac(s[(n + 1) \div 2], 1)
            ELSE Frac(s[n \div 2] + s[n \div 2 + 1], 2)

\* a - b on floats: NaN when either side is NaN.
minus_swapped(a, b) ==
    IF ~a.def \/ ~b.def THEN Undefined
    ELSE Frac(b.num * a.den - a.num * b.den, a.den * b.den)

minus(a, b) ==
    IF ~a.def \/ ~b.def THEN Undefined
    ELSE Frac(a.num * b.den - b.num * a.den, a.den * b.den)

RowsOfGroup(rows, cols, key) ==
    take(rows, [n \in 1..Len(rows) |->
                   HasKey(rows[n], cols) /\ KeyOf(rows[n], cols) = key], 1)

summary_statistics(df, group_col_list, summary_col) ==
    IF Len(group_col_list) = 0 THEN None
    ELSE IF \E i \in 1..Len(group_col_list) : group_col_list[i] \notin df.columns
    THEN None
    ELSE IF summary_col \notin df.columns THEN Raise
    ELSE LET global_mean == mean(Values(df.rows, summary_col, 1))
             keys == GroupKeys(df.rows, group_col_list)
             agg(k) == LET vs == Values(RowsOfGroup(df.rows, group_col_list, k),
                                        summary_col, 1)
                       IN [median |-> median(vs), mean |-> mean(vs),
                           mean_diff |-> minus(mean(vs), global_mean)]
         IN [kind |-> "agg",
             index |-> SortedKeys(group_col_list, keys),
             stat |-> [k \in keys |-> agg(k)]]

get_summary_statistics(df, group_col_list, summary_col) ==
    [ret |-> summary_statistics(df, group_col_list, summary_col), df |-> df]

\* ------------------------------------------------------------------ rates
\* The frame of rates: index is the sequence of group keys, columns the
\* sequence of outcome values, cell[key][value] the rate.
Rate(n, d) == [num |-> n, den |-> d]
Zero == Rate(0, 1)

rates_over_all_rows(df, cat_col, outcome_col) ==
    IF \E i \in 1..Len(cat_col) :
          cat_col[i] \notin df.columns \/ outcome_col \notin df.columns
    THEN None
    ELSE IF Len(cat_col) = 0 THEN Raise
    ELSE LET groups == cat_col \o <<outcome_col>>
             full == GroupKeys(df.rows, groups)
             keys == {SubSeq(g, 1, Len(cat_col)) : g \in full}
             outs == {g[Len(groups)] : g \in full}
             pct(k, o) ==
                 Rate(GroupSize(df.rows, groups, k \o <<o>>),
                      Len(df.rows))
         IN [kind |-> "rates",
             index |-> SortedKeys(cat_col, keys),
             columns |-> [i \in 1..Cardinality(outs) |->
                             SortedKeys(<<outcome_col>>, {<<o>> : o \in outs})[i][1]],
             cell |-> [k \in keys |-> [o \in outs |->
                          IF (k \o <<o>>) \in full THEN pct(k, o) ELSE Zero]]]

rates(df, cat_col, outcome_col) ==
    IF \E i \in 1..Len(cat_col) :
          cat_col[i] \notin df.columns \/ outcome_col \notin df.columns
    THEN None
    ELSE IF Len(cat_col) = 0 THEN Raise
    ELSE LET groups == cat_col \o <<outcome_col>>
             full == GroupKeys(df.rows, groups)
             keys == {SubSeq(g, 1, Len(cat_col)) : g \in full}
             outs == {g[Len(groups)] : g \in full}
             pct(k, o) ==
                 Rate(GroupSize(df.rows, groups, k \o <<o>>),
                      GroupSize(df.rows, cat_col, k))
         IN [kind |-> "rates",
             index |-> SortedKeys(cat_col, keys),
             columns |-> [i \in 1..Cardinality(outs) |->
                             SortedKeys(<<outcome_col>>, {<<o>> : o \in outs})[i][1]],
             cell |-> [k \in keys |-> [o \in outs |->
                          IF (k \o <<o>>) \in full THEN pct(k, o) ELSE Zero]]]

get_rates(df, cat_col, outcome_col) ==
    [ret |-> rates(df, cat_col, outcome_col), df |-> df]

\* ----------------------------------------------------------- search share
SearchFields(searches_df) == searches_df.columns \ {STOP_ID}

\* pd.merge(stops_df, searches_df, on=STOP_ID, how='left'): every stops row,
\* once per searches row of the same stop_id, or once with missing search
\* fields when there is none.
JoinRow(l, s, lcols, scols) ==
    [c \in lcols \cup scols |-> IF c \in lcols THEN l[c] ELSE s[c]]

NullSearch(scols) == [c \in scols |-> NA]

RECURSIVE merge_rows(_, _, _)
merge_rows(stops_df, searches_df, i) ==
    IF i > Len(stops_df.rows) THEN <<>>
    ELSE LET l == stops_df.rows[i]
             scols == SearchFields(searches_df)
             match == take(searches_df.rows,
                           [n \in 1..Len(searches_df.rows) |->
                               searches_df.rows[n].stop_id = l.stop_id], 1)
             out == IF match = <<>>
                       THEN <<JoinRow(l, NullSearch(scols), stops_df.columns, scols)>>
                       ELSE [j \in 1..Len(match) |->
                                JoinRow(l, match[j], stops_df.columns, scols)]
         IN out \o merge_rows(stops_df, searches_df, i + 1)

merge(stops_df, searches_df) ==
    DataFrame(stops_df.columns \cup searches_df.columns,
              merge_rows(stops_df, searches_df, 1))

\* Lines 233-237: the search_conducted column of the joined frame.
flag_any_type(merged_df) ==
    DataFrame(merged_df.columns \cup {SEARCH_CONDUCTED},
              [i \in DOMAIN merged_df.rows |->
                  [c \in merged_df.columns \cup {SEARCH_CONDUCTED} |->
                      IF c = SEARCH_CONDUCTED
                      THEN IF ~isnull(SEARCH_TYPE, merged_df.rows[i][SEARCH_TYPE])
                           THEN "True" ELSE "False"
                      ELSE merged_df.rows[i][c]]])

flag_from_type(merged_df) ==
    DataFrame(merged_df.columns \cup {SEARCH_CONDUCTED},
              [i \in DOMAIN merged_df.rows |->
                  [c \in merged_df.columns \cup {SEARCH_CONDUCTED} |->
                      IF c = SEARCH_CONDUCTED
                      THEN IF isin(SEARCH_TYPE, merged_df.rows[i][SEARCH_TYPE],
                                   SEARCHING_TYPES)
                           THEN "True" ELSE "False"
                      ELSE merged_df.rows[i][c]]])

search_conducted(merged_df) ==
    IF SEARCH_CONDUCTED \in merged_df.columns
    THEN DataFrame(merged_df.columns,
                   [i \in DOMAIN merged_df.rows |->
                       [c \in merged_df.columns |->
                           IF c = SEARCH_CONDUCTED
                           THEN fillna(c, merged_df.rows[i][c], "False")
                           ELSE merged_df.rows[i][c]]])
    ELSE flag_from_type(merged_df)

\* Lines 239-240: the officers whose group size reaches M_stops.
officer_count_greater(merged_df, M_stops) ==
    {k \in GroupKeys(merged_df.rows, <<OFFICER_ID>>) :
        GroupSize(merged_df.rows, <<OFFICER_ID>>, k) > M_stops}

officer_count(merged_df, M_stops) ==
    {k \in GroupKeys(merged_df.rows, <<OFFICER_ID>>) :
        GroupSize(merged_df.rows, <<OFFICER_ID>>, k) >= M_stops}

\* Lines 249-253: the missing one of the two columns, filled with 0.
no_fill(new_df) == new_df

fill_missing_column(new_df) ==
    IF Len(new_df.columns) = 1
    THEN LET added == IF "False" \in Range(new_df.columns) THEN "True" ELSE "False"
         IN [kind |-> "rates",
             index |-> new_df.index,
             columns |-> new_df.columns \o <<added>>,
             cell |-> [k \in DOMAIN new_df.cell |->
                          [o \in Range(new_df.columns) \cup {added} |->
                              IF o = added THEN Zero ELSE new_df.cell[k][o]]]]
    ELSE new_df

RateLeq(a, b) == a.num * b.den <= b.num * a.den

Permutations(seq) ==
    {p \in [DOMAIN seq -> Range(seq)] : \A v \in Range(seq) : \E i \in DOMAIN seq : p[i] = v}

\* sort_values(by): the frames whose index is the old one reordered with the
\* column non-decreasing; the order of rows of equal value is not fixed.
sort_values(new_df, by) ==
    {[new_df EXCEPT !.index = p] : p \in
        {q \in Permutations(new_df.index) :
            \A i \in 1..(Len(q) - 1) :
                RateLeq(new_df.cell[q[i]][by], new_df.cell[q[i + 1]][by])}}

\* Lines 231-237: the joined frame with its search_conducted column.
joined_frame(stops_df, searches_df) == search_conducted(merge(stops_df, searches_df))

\* Lines 239-255, on the joined frame: the possible return values.
search_share(merged, cat_col, M_stops) ==
    LET index == officer_count(merged, M_stops)
    IN IF index = {} THEN {None}
       ELSE LET mask == [n \in 1..Len(merged.rows) |->
                            isin(OFFICER_ID, <<merged.rows[n][OFFICER_ID]>>, index)]
                kept == select(merged, mask)
                rated == rates(kept, cat_col, SEARCH_CONDUCTED)
            IN IF rated.kind # "rates" THEN {Raise}
               ELSE LET new_df == fill_missing_column(rated)
                    IN IF "True" \notin Range(new_df.columns) THEN {Raise}
                       ELSE sort_values(new_df, "True")

\* The call: its return value, the joined frame it built, and the state in
\* which it leaves the two frames the caller passed.
share_joins_in_place(stops_df, searches_df, cat_col, M_stops) ==
    LET merged == joined_frame(stops_df, searches_df)
    IN {[ret |-> r, merged |-> merged, stops_df |-> merged, searches_df |-> searches_df] :
           r \in search_share(merged, cat_col, M_stops)}

compute_search_share(stops_df, searches_df, cat_col, M_stops) ==
    LET merged == joined_frame(stops_df, searches_df)
    IN {[ret |-> r, merged |-> merged, stops_df |-> stops_df,
         searches_df |-> searches_df] :
           r \in search_share(merged, cat_col, M_stops)}

\* ------------------------------------------------------------------ inputs
\* The rows of a stops file: stop_id is the position of the row.
RawStop(id, date, officer, age, race, outcome) ==
    [stop_id |-> id, stop_date |-> date, officer_id |-> officer,
     driver_age |-> age, driver_race |-> race, stop_outcome |-> outcome]

File(rows) == [exists |-> TRUE, rows |-> rows]
MissingFile == [exists |-> FALSE, rows |-> <<>>]

\* Files that differ in the driver ages, around every bin edge.
AgeVals == {NaN, 0, 20, 21, 36, 37, 50, 65, 100, 101}
AgeFiles ==
    UNION {{File([i \in 1..n |-> RawStop(i, <<2015, 6, 1>>, "O1", f[i], "A", "Citation")]) :
              f \in [1..n -> AgeVals]} : n \in 0..MaxAgeRows}

\* Files that differ in age and race, the value and group columns.
GroupFiles ==
    UNION {{File([i \in 1..n |-> RawStop(i, <<2015, 1, 1>>, "O1", f[i][1], f[i][2], "Warning")]) :
              f \in [1..n -> {NaN, 21, 37} \X {"A", "B"}]} : n \in 0..MaxRows}

\* Files that differ in officer and race, for the search share.
OfficerFiles ==
    UNION {{File([i \in 1..n |-> RawStop(i, <<2015, 9, 1>>, f[i][1], 21, f[i][2], "Arrest")]) :
              f \in [1..n -> {NA, "O1"} \X {"A", "B"}]} : n \in 0..MaxStops}

\* Searches tables, with and without a search_conducted column; the searched
\* stops are the first two of the file, and the records are in stop order.
SearchedStops == {1, 2}
SearchRowsFlag ==
    {[stop_id |-> id, search_type |-> "Probable Cause", search_conducted |-> c] :
        id \in SearchedStops, c \in {NA, "True", "False"}}
SearchRowsType ==
    {[stop_id |-> id, search_type |-> t] :
        id \in SearchedStops,
        t \in {"Probable Cause", "Incident to Arrest", "Vehicle Inventory"}}
InStopOrder(f) == \A i \in 1..(Len(f) - 1) : f[i].stop_id <= f[i + 1].stop_id
SearchTables ==
    UNION {{DataFrame({STOP_ID, SEARCH_TYPE, SEARCH_CONDUCTED}, f) :
               f \in {g \in [1..n -> SearchRowsFlag] : InStopOrder(g)}}
           \cup {DataFrame({STOP_ID, SEARCH_TYPE}, f) :
                    f \in {g \in [1..n -> SearchRowsType] : InStopOrder(g)}} :
           n \in 0..MaxSearches}
NoSearches == DataFrame({STOP_ID, SEARCH_TYPE}, <<>>)

\* Arguments of the calls.  A filter map is the sequence of its items.
ValItems == {[key |-> DRIVER_RACE, value |-> {"A"}],
             [key |-> DRIVER_AGE, value |-> {21}],
             [key |-> DRIVER_AGE, value |-> {21, 37}],
             [key |-> "no_such_column", value |-> {"x"}]}
RangeItems == {[key |-> DRIVER_AGE, value |-> <<21, 36>>],
               [key |-> DRIVER_AGE, value |-> <<-5, 20>>],
               [key |-> STOP_ID, value |-> <<2, 3>>],
               [key |-> "no_such_column", value |-> <<0, 1>>]}
FilterMaps(items) ==
    {<<a>> : a \in items}
    \cup {<<p[1], p[2]>> : p \in {q \in items \X items : q[1].key # q[2].key}}

GroupLists == {<<>>, <<DRIVER_RACE>>, <<AGE_CAT>>, <<DRIVER_RACE, AGE_CAT>>,
               <<"no_such_column">>, <<DRIVER_RACE, "no_such_column">>}
SummaryCols == {DRIVER_AGE, "no_such_column"}
RateArgs == {a \in GroupLists \X {AGE_CAT, DRIVER_RACE, "no_such_column"} :
                a[2] \notin Range(a[1]) \/ a[2] = "no_such_column"}
ShareArgs == ({<<DRIVER_RACE>>, <<OFFICER_ID>>} \X (1..MaxStops))
             \cup {<<<<"no_such_column">>, 1>>}

\* ----------------------------------------------------------------- actions
Start(files, tables) ==
    /\ csv \in files
    /\ searches \in tables
    /\ stops = None
    /\ call = [op |-> "start"]
    /\ ret = None
    /\ joined = None

\* The caller may call once the stops frame is loaded and the last call is over.
Ready == stops.kind = "df" /\ call.op = "ready"

LoadStops ==
    /\ call.op = "start"
    /\ stops' = read_and_process_allstops(csv)
    /\ call' = [op |-> "ready"]
    /\ ret' = None
    /\ UNCHANGED <<csv, searches, joined>>

CallValFilter ==
    /\ Ready
    /\ \E filter_info \in FilterMaps(ValItems) :
          LET out == apply_val_filters(stops, filter_info)
          IN /\ ret' = out.ret
             /\ stops' = out.df
             /\ call' = [op |-> "apply_val_filters", filter_info |-> filter_info]
    /\ UNCHANGED <<csv, searches, joined>>

CallRangeFilter ==
    /\ Ready
    /\ \E filter_info \in FilterMaps(RangeItems) :
          LET out == apply_range_filters(stops, filter_info)
          IN /\ ret' = out.ret
             /\ stops' = out.df
             /\ call' = [op |-> "apply_range_filters", filter_info |-> filter_info]
    /\ UNCHANGED <<csv, searches, joined>>

CallSummary ==
    /\ Ready
    /\ \E group_col_list \in GroupLists, summary_col \in SummaryCols :
          LET out == get_summary_statistics(stops, group_col_list, summary_col)
          IN /\ ret' = out.ret
             /\ stops' = out.df
             /\ call' = [op |-> "get_summary_statistics",
                         group_col_list |-> group_col_list,
                         summary_col |-> summary_col]
    /\ UNCHANGED <<csv, searches, joined>>

CallRates ==
    /\ Ready
    /\ \E a \in RateArgs :
          LET out == get_rates(stops, a[1], a[2])
          IN /\ ret' = out.ret
             /\ stops' = out.df
             /\ call' = [op |-> "get_rates", cat_col |-> a[1], outcome_col |-> a[2]]
    /\ UNCHANGED <<csv, searches, joined>>

CallSearchShare ==
    /\ Ready
    /\ \E a \in ShareArgs :
          \E out \in compute_search_share(stops, searches, a[1], a[2]) :
             /\ ret' = out.ret
             /\ joined' = out.merged
             /\ stops' = out.stops_df
             /\ searches' = out.searches_df
             /\ call' = [op |-> "compute_search_share", cat_col |-> a[1],
                         M_stops |-> a[2]]
    /\ UNCHANGED csv

\* The call is over: the caller goes on with the frames it holds.
Return ==
    /\ call.op \notin {"start", "ready"}
    /\ call' = [op |-> "ready"]
    /\ ret' = None
    /\ joined' = None
    /\ UNCHANGED <<csv, stops, searches>>

\* The filters, the statistics and the rates on files that differ in age and race.
Init == Start(GroupFiles \cup {MissingFile}, {NoSearches})

Next == LoadStops \/ CallValFilter \/ CallRangeFilter \/ CallSummary \/ CallRates \/ Return

Spec == Init /\ [][Next]_vars

\* The normaliser and the range filter on files that differ in the ages.
InitAges == Start(AgeFiles, {NoSearches})

NextAges == LoadStops \/ CallRangeFilter \/ Return

SpecAges == InitAges /\ [][NextAges]_vars

\* The search share on files that differ in officer and race.
InitSearch == Start(OfficerFiles, SearchTables)

NextSearch == LoadStops \/ CallSearchShare \/ Return

SpecSearch == InitSearch /\ [][NextSearch]_vars

\* Every operation, on the same files with at most one search record.
InitAll == Start(OfficerFiles, {t \in SearchTables : Len(t.rows) <= 1})

NextAll ==
    \/ LoadStops
    \/ CallValFilter
    \/ CallRangeFilter
    \/ CallSummary
    \/ CallRates
    \/ CallSearchShare
    \/ Return

SpecAll == InitAll /\ [][NextAll]_vars

\* ------------------------------------------------------------------ claims
Loaded == stops.kind = "df"
Called(op) == Loaded /\ call.op = op
KeysKnown(items) == \A k \in DOMAIN items : items[k].key \in stops.columns

\* The label of an age under the bins [0,21), [21,36), [36,50), [50,65), [65,100].
HalfOpenLabel(age) ==
    CASE age = NaN -> NA
      [] age # NaN /\ 0 <= age /\ age < 21 -> "juvenile"
      [] 21 <= age /\ age < 36 -> "young_adult"
      [] 36 <= age /\ age < 50 -> "adult"
      [] 50 <= age /\ age < 65 -> "middle_aged"
      [] 65 <= age /\ age <= 100 -> "senior"
      [] OTHER -> NA

\* The label of an age under the bins (0,21], (21,36], (36,50], (50,65], (65,100].
RightClosedLabel(age) ==
    CASE age = NaN -> NA
      [] 0 < age /\ age <= 21 -> "juvenile"
      [] 21 < age /\ age <= 36 -> "young_adult"
      [] 36 < age /\ age <= 50 -> "adult"
      [] 50 < age /\ age <= 65 -> "middle_aged"
      [] 65 < age /\ age <= 100 -> "senior"
      [] OTHER -> NA

InRange(r, item) ==
    /\ r[item.key] # NaN
    /\ item.value[1] <= r[item.key]
    /\ r[item.key] <= item.value[2]

\* C7: apply_range_filters returns exactly the rows whose value lies in
\* [low, high], both ends included, for every item of the map; rows with a
\* missing value are removed.  With [21, 36] on driver_age, 21 and 36 stay
\* and 20 and 37 go.
C7_RangeInclusive ==
    (Called("apply_range_filters") /\ KeysKnown(call.filter_info)) =>
        /\ ret.kind = "df"
        /\ ret.rows = SelectSeq(stops.rows,
                          LAMBDA r : \A k \in DOMAIN call.filter_info :
                                        InRange(r, call.filter_info[k]))
        /\ call.filter_info = <<[key |-> DRIVER_AGE, value |-> <<21, 36>>]>> =>
              \A i \in DOMAIN stops.rows :
                 /\ stops.rows[i].driver_age \in {21, 36} =>
                       \E j \in DOMAIN ret.rows : ret.rows[j] = stops.rows[i]
                 /\ stops.rows[i].driver_age \in {NaN, 20, 37} =>
                       \A j \in DOMAIN ret.rows : ret.rows[j] # stops.rows[i]

C7_Witness ==
    /\ Called("apply_range_filters")
    /\ call.filter_info = <<[key |-> DRIVER_AGE, value |-> <<21, 36>>]>>
    /\ ret.kind = "df"
    /\ \E i \in DOMAIN stops.rows : stops.rows[i].driver_age = 37
    /\ \E j \in DOMAIN ret.rows : ret.rows[j].driver_age = 36

\* C6: apply_val_filters returns exactly the rows whose value in every named
\* column is one of the allowed values of that column, whatever the order of
\* the items, and None when any named column is missing, wherever it stands.
C6_ValueFilterAnd ==
    Called("apply_val_filters") =>
        IF KeysKnown(call.filter_info)
        THEN /\ ret.kind = "df"
             /\ ret.columns = stops.columns
             /\ ret.rows = SelectSeq(stops.rows,
                               LAMBDA r : \A k \in DOMAIN call.filter_info :
                                   r[call.filter_info[k].key] \in call.filter_info[k].value)
        ELSE ret.kind = "None"

C6_Witness ==
    /\ Called("apply_val_filters")
    /\ Len(call.filter_info) = 2
    /\ ret.kind = "df"
    /\ Len(ret.rows) > 0
    /\ \E i \in DOMAIN stops.rows :
          /\ stops.rows[i][call.filter_info[1].key] \in call.filter_info[1].value
          /\ stops.rows[i][call.filter_info[2].key] \notin call.filter_info[2].value
    /\ \E i \in DOMAIN stops.rows :
          /\ stops.rows[i][call.filter_info[1].key] \notin call.filter_info[1].value
          /\ stops.rows[i][call.filter_info[2].key] \in call.filter_info[2].value

\* The last call names a column the stops frame does not have.
NamesUnknownColumn ==
    CASE call.op \in {"apply_val_filters", "apply_range_filters"} ->
            ~KeysKnown(call.filter_info)
      [] call.op = "get_summary_statistics" ->
            \/ \E c \in Range(call.group_col_list) : c \notin stops.columns
            \/ call.summary_col \notin stops.columns
      [] call.op = "get_rates" ->
            \/ \E c \in Range(call.cat_col) : c \notin stops.columns
            \/ call.outcome_col \notin stops.columns
      [] OTHER -> FALSE

\* C2: a call of a filter, of the summary statistics or of the rates that
\* names a column the frame does not have returns None and does not raise.
C2_UnknownColumnGivesNone ==
    (Loaded /\ NamesUnknownColumn) => ret.kind = "None"

\* Counts on the stops frame, for the rates.
Matches(r, cols, key) == \A j \in 1..Len(cols) : r[cols[j]] = key[j]
CountRows(cols, key) ==
    Cardinality({i \in DOMAIN stops.rows : Matches(stops.rows[i], cols, key)})

RECURSIVE RowSum(_, _, _)
RowSum(cells, cols, i) ==
    IF i > Len(cols) THEN Rate(0, 1)
    ELSE LET rest == RowSum(cells, cols, i + 1)
             c == cells[cols[i]]
         IN Rate(c.num * rest.den + rest.num * c.den, c.den * rest.den)

NoMissingValues(cols) ==
    \A i \in DOMAIN stops.rows : \A c \in Range(cols) : ~isnull(c, stops.rows[i][c])

\* C5: on a frame with no missing value in the group and outcome columns,
\* get_rates has a row for every group, a column for every outcome value, the
\* cell count(group, value) / count(group), 0 where the group never shows the
\* value, and the cells of every row add up to 1.
C5_RatesSumToOne ==
    (/\ Called("get_rates")
     /\ ret.kind = "rates"
     /\ NoMissingValues(call.cat_col \o <<call.outcome_col>>)) =>
        /\ Range(ret.index) =
              {[j \in 1..Len(call.cat_col) |-> stops.rows[i][call.cat_col[j]]] :
                  i \in DOMAIN stops.rows}
        /\ Range(ret.columns) = {stops.rows[i][call.outcome_col] : i \in DOMAIN stops.rows}
        /\ \A k \in Range(ret.index) :
              /\ \A o \in Range(ret.columns) :
                    LET cell == ret.cell[k][o]
                        both == CountRows(call.cat_col \o <<call.outcome_col>>, k \o <<o>>)
                    IN /\ cell.den > 0
                       /\ cell.num * CountRows(call.cat_col, k) = both * cell.den
                       /\ both = 0 => cell.num = 0
              /\ LET sum == RowSum(ret.cell[k], ret.columns, 1)
                 IN sum.num = sum.den

C5_Witness ==
    /\ Called("get_rates")
    /\ ret.kind = "rates"
    /\ NoMissingValues(call.cat_col \o <<call.outcome_col>>)
    /\ Len(ret.index) = 2
    /\ \E k \in Range(ret.index) : \E o \in Range(ret.columns) : ret.cell[k][o].num = 0
    /\ \E k \in Range(ret.index) : \A o \in Range(ret.columns) : ret.cell[k][o].num > 0

\* The value column summed over a set of rows.
RECURSIVE SumOver(_, _)
SumOver(S, col) ==
    IF S = {} THEN 0
    ELSE LET i == CHOOSE x \in S : TRUE
         IN stops.rows[i][col] + SumOver(S \ {i}, col)

Valued(col) == {i \in DOMAIN stops.rows : stops.rows[i][col] # NaN}
ValuedIn(cols, key, col) == {i \in Valued(col) : Matches(stops.rows[i], cols, key)}

MeanDiffOf(k) ==
    LET col == call.summary_col
        G == ValuedIn(call.group_col_list, k, col)
        md == ret.stat[k].mean_diff
    IN IF G = {} THEN ~md.def
       ELSE /\ md.def
            /\ md.den > 0
            /\ md.num * Cardinality(G) * Cardinality(Valued(col))
                  = (SumOver(G, col) * Cardinality(Valued(col))
                     - SumOver(Valued(col), col) * Cardinality(G)) * md.den

\* Every row of the frame is in one and the same group.
OneGroup(cols) ==
    /\ stops.rows # <<>>
    /\ NoMissingValues(cols)
    /\ \A i, j \in DOMAIN stops.rows : \A c \in Range(cols) :
          stops.rows[i][c] = stops.rows[j][c]

\* C9 as stated: mean_diff of a group is the mean of the value column over
\* the group minus its mean over the whole frame, and when all rows fall in
\* one single group, mean_diff of that group is 0.
C9_OneGroupZero ==
    (Called("get_summary_statistics") /\ ret.kind = "agg") =>
        \A k \in DOMAIN ret.stat :
            /\ MeanDiffOf(k)
            /\ OneGroup(call.group_col_list) =>
                  ret.stat[k].mean_diff.def /\ ret.stat[k].mean_diff.num = 0

\* C9 amended: mean_diff of a group is the mean of the value column over
\* the group minus its mean over the whole frame; when all rows fall in one
\* single group that has at least one value, mean_diff of that group is 0;
\* a group with no value at all has a missing mean_diff.
C9_OneGroupWithValuesZero ==
    (Called("get_summary_statistics") /\ ret.kind = "agg") =>
        \A k \in DOMAIN ret.stat :
            /\ MeanDiffOf(k)
            /\ (/\ OneGroup(call.group_col_list)
                /\ ValuedIn(call.group_col_list, k, call.summary_col) # {}) =>
                  ret.stat[k].mean_diff.def /\ ret.stat[k].mean_diff.num = 0

C9_Witness ==
    /\ Called("get_summary_statistics")
    /\ ret.kind = "agg"
    /\ OneGroup(call.group_col_list)
    /\ \E i, j \in DOMAIN stops.rows :
          /\ stops.rows[i].driver_age = 21
          /\ stops.rows[j].driver_age = 37
    /\ \A k \in DOMAIN ret.stat :
          ret.stat[k].mean_diff.def /\ ret.stat[k].mean_diff.num = 0

\* The rows of the left join, stated on the two frames: a stop with each of
\* its search records, or with none (0) when it has no record.
Pairs ==
    {p \in (DOMAIN stops.rows) \X (0..Len(searches.rows)) :
        IF p[2] = 0
        THEN \A j \in DOMAIN searches.rows :
                searches.rows[j].stop_id # stops.rows[p[1]].stop_id
        ELSE searches.rows[p[2]].stop_id = stops.rows[p[1]].stop_id}

\* The order of the joined rows: that of the stops, then of the records.
Before(q, p) == q[1] < p[1] \/ (q[1] = p[1] /\ q[2] < p[2])

ExpectedFlag(p) ==
    IF SEARCH_CONDUCTED \in searches.columns
    THEN IF p[2] = 0 THEN "False"
         ELSE IF searches.rows[p[2]].search_conducted = NA THEN "False"
         ELSE searches.rows[p[2]].search_conducted
    ELSE IF p[2] # 0 /\ searches.rows[p[2]].search_type
                            \in {"Probable Cause", "Incident to Arrest"}
         THEN "True" ELSE "False"

\* C10: the search_conducted flag of every joined row is the supplied value
\* with a missing one replaced by false when the searches frame has the
\* column, and otherwise true iff search_type is "Probable Cause" or
\* "Incident to Arrest".
C10_SearchConductedFlag ==
    Called("compute_search_share") =>
        LET pairs == Pairs
            nth(n) == CHOOSE p \in pairs :
                         Cardinality({q \in pairs : Before(q, p)}) = n - 1
        IN /\ joined.kind = "df"
           /\ Len(joined.rows) = Cardinality(pairs)
           /\ \A n \in DOMAIN joined.rows :
                 LET p == nth(n)
                 IN /\ joined.rows[n].stop_id = stops.rows[p[1]].stop_id
                    /\ joined.rows[n].officer_id = stops.rows[p[1]].officer_id
                    /\ joined.rows[n].search_type =
                          (IF p[2] = 0 THEN NA ELSE searches.rows[p[2]].search_type)
                    /\ joined.rows[n].search_conducted = ExpectedFlag(p)

C10_Witness ==
    /\ Called("compute_search_share")
    /\ SEARCH_CONDUCTED \notin searches.columns
    /\ \E n \in DOMAIN joined.rows :
          /\ joined.rows[n].search_type = "Vehicle Inventory"
          /\ joined.rows[n].search_conducted = "False"
    /\ \E n \in DOMAIN joined.rows :
          /\ joined.rows[n].search_type = "Probable Cause"
          /\ joined.rows[n].search_conducted = "True"

\* The officers that have at least M_stops rows of the join.
OfficerOf(p) == stops.rows[p[1]].officer_id
GroupOf(p) == [j \in 1..Len(call.cat_col) |-> stops.rows[p[1]][call.cat_col[j]]]
RetainedOf(pairs) ==
    {o \in {OfficerOf(p) : p \in pairs} :
        Cardinality({p \in pairs : OfficerOf(p) = o}) >= call.M_stops}

\* C3: an officer is retained iff it has at least min_stops rows in the
\* joined table; the rates are those of the rows of the retained officers
\* alone; the result is None exactly when no officer is retained.
C3_OfficerThreshold ==
    Called("compute_search_share") =>
        LET pairs == Pairs
            retained == RetainedOf(pairs)
            kept == {p \in pairs : OfficerOf(p) \in retained}
        IN /\ ret.kind = "None" <=> retained = {}
           /\ ret.kind = "rates" =>
                 /\ Range(ret.index) = {GroupOf(p) : p \in kept}
                 /\ call.cat_col = <<OFFICER_ID>> =>
                       Range(ret.index) = {<<o>> : o \in retained}
                 /\ \A k \in Range(ret.index) : \A o \in {"True", "False"} :
                       LET cell == ret.cell[k][o]
                           group == {p \in kept : GroupOf(p) = k}
                       IN /\ cell.den > 0
                          /\ cell.num * Cardinality(group) =
                                Cardinality({p \in group : ExpectedFlag(p) = o}) * cell.den

C3_Witness ==
    /\ Called("compute_search_share")
    /\ ret.kind = "rates"
    /\ call.cat_col = <<DRIVER_RACE>>
    /\ LET pairs == Pairs
           retained == RetainedOf(pairs)
       IN \E p \in pairs : \E q \in pairs :
             /\ OfficerOf(p) \notin retained
             /\ OfficerOf(q) \in retained
             /\ GroupOf(p) = GroupOf(q)
             /\ ExpectedFlag(p) # ExpectedFlag(q)

\* C4: a table returned by compute_search_share has a true and a false
\* column, also when only one of the two values occurs, and its rows are in
\* non-decreasing order of the true rate.
C4_BothColumnsSorted ==
    (Called("compute_search_share") /\ ret.kind = "rates") =>
        /\ {"True", "False"} \subseteq Range(ret.columns)
        /\ \A k \in Range(ret.index) : {"True", "False"} \subseteq DOMAIN ret.cell[k]
        /\ \A n \in 1..(Len(ret.index) - 1) :
              LET a == ret.cell[ret.index[n]]["True"]
                  b == ret.cell[ret.index[n + 1]]["True"]
              IN a.num * b.den <= b.num * a.den

C4_Witness ==
    /\ Called("compute_search_share")
    /\ ret.kind = "rates"
    /\ Len(ret.index) = 2
    /\ \A n \in DOMAIN joined.rows : joined.rows[n].search_conducted = "True"
    /\ \A k \in Range(ret.index) :
          ret.cell[k]["True"].num > 0 /\ ret.cell[k]["False"].num = 0

\* C8: no call changes the stops frame or the searches frame of the caller,
\* whether it returns a frame, None or raises.
C8_FramesUnchanged ==
    [][Loaded => (stops' = stops /\ searches' = searches)]_vars

C8_Witness ==
    /\ Called("compute_search_share")
    /\ ret.kind = "rates"
    /\ joined.columns # stops.columns
    /\ \E n \in DOMAIN joined.rows : joined.rows[n].search_conducted = "True"
    /\ stops = read_and_process_allstops(csv)

====
